---------------------------- MODULE Spec2Model ----------------------------
(***************************************************************************)
(* Model of the billing comparison core of src/server.py: the tariff       *)
(* period table TARIFF_PERIODS, _round2, _validate_periods, _compute_bill  *)
(* and the /compare handler.                                               *)
(*                                                                         *)
(* Numbers.  The program computes with Python floats.  The model computes  *)
(* with exact rationals [n, d] (d > 0, lowest terms); round(x, 2) is the   *)
(* round-half-to-even of Python's round, applied to the exact value, and   *)
(* its result is kept as an integer number of cents.  The binary           *)
(* representation error of a double (about 1e-16 relative) is not          *)
(* modelled: it decides a round() only when the exact value is a tie, and  *)
(* a call on which some round() of the program meets an exact tie is not   *)
(* taken (HasTie).  On every other input the model's amounts are the       *)
(* program's.                                                              *)
(* Inputs are held in the state as integers: kWh and kW as                 *)
(* units, prices and the fixed charge in micro-euros (1e-6 EUR), the tax   *)
(* rates in units of 1e-5 (5112 is 0.05112).                               *)
(***************************************************************************)
EXTENDS Integers, Sequences, FiniteSets

VARIABLES
    pc,         \* position of the operation in progress
    payload,    \* CompareInput of the /compare request
    error,      \* HTTPException / KeyError raised, or NoError
    actual,     \* BillBreakdown of payload.actual, or NoBill
    propuesta,  \* BillBreakdown of payload.propuesta, or NoBill
    result,     \* CompareResult returned by compare, or NoResult
    args,       \* arguments of a direct call of _compute_bill / _validate_periods
    bill        \* what the direct call of _compute_bill returned, or NoBill

vars == <<pc, payload, error, actual, propuesta, result, args, bill>>

---------------------------------------------------------------------------
(* Exact arithmetic standing for float arithmetic.                         *)

Abs(x) == IF x < 0 THEN -x ELSE x

RECURSIVE GCD(_, _)
GCD(a, b) == IF b = 0 THEN a ELSE GCD(b, a % b)

\* the rational n/d (d # 0) in lowest terms with a positive denominator
Rat(n, d) ==
    LET g == GCD(Abs(n), Abs(d))
        s == IF d < 0 THEN -1 ELSE 1
    IN  [n |-> s * (n \div g), d |-> s * (d \div g)]

Zero == Rat(0, 1)

RAdd(a, b) ==
    LET g == GCD(a.d, b.d)
    IN  Rat(a.n * (b.d \div g) + b.n * (a.d \div g), (a.d \div g) * b.d)

RNeg(a) == [n |-> -a.n, d |-> a.d]

RSub(a, b) == RAdd(a, RNeg(b))

RMul(a, b) ==
    LET g1 == GCD(Abs(a.n), b.d)
        g2 == GCD(Abs(b.n), a.d)
    IN  Rat((a.n \div g1) * (b.n \div g2), (a.d \div g2) * (b.d \div g1))

\* a / b for b # 0
RDiv(a, b) == RMul(a, Rat(b.d, b.n))

\* round(x, 2) of Python, as a number of cents: the nearest multiple of
\* 0.01, a tie going to the even one.  The two decimals are taken by long
\* division (\div is the floor division, so every remainder is in 0 .. d-1
\* for a negative x too), and what is left decides the rounding.
Round(x) ==
    LET q  == x.n \div x.d
        r0 == x.n % x.d
        t  == (10 * r0) \div x.d
        r1 == (10 * r0) % x.d
        u  == (10 * r1) \div x.d
        r2 == (10 * r1) % x.d
        c  == 100 * q + 10 * t + u
    IN  IF 2 * r2 < x.d THEN c
        ELSE IF 2 * r2 > x.d THEN c + 1
        ELSE IF c % 2 = 0 THEN c ELSE c + 1

\* the float holding a whole number of cents
Cents(c) == Rat(c, 100)

\* _round2(n): round(float(n), 2)
Round2(x) == Round(x)

\* the floats the inputs stand for
Units(q) == Rat(q, 1)

Euros(micro) == Rat(micro, 1000000)

Rate(r) == Rat(r, 100000)

---------------------------------------------------------------------------
(* Tariff period table.                                                    *)

Tariffs == {"2.0TD", "3.0TD", "6.1TD"}

TARIFF_PERIODS ==
    [t \in Tariffs |->
        IF t = "2.0TD"
        THEN [potencia |-> <<"P1", "P2">>, energia |-> <<"E1", "E2", "E3">>]
        ELSE [potencia |-> <<"P1", "P2", "P3", "P4", "P5", "P6">>,
              energia  |-> <<"E1", "E2", "E3", "E4", "E5", "E6">>]]

Range(s) == {s[i] : i \in 1..Len(s)}

\* dict.get with the default ignored in favour of 4000
GetOtro(m, k, default) == IF k \in DOMAIN m THEN m[k] ELSE 4000

\* dict.get(k, default)
Get(m, k, default) == IF k \in DOMAIN m THEN m[k] ELSE default

\* Optional[Dict]: None, or a dict
None == [isNone |-> TRUE, map |-> [k \in {} |-> 0]]

Some(m) == [isNone |-> FALSE, map |-> m]

\* truth value of an Optional[Dict]: None and the empty dict are falsy
Truthy(o) == ~o.isNone /\ DOMAIN o.map # {}

---------------------------------------------------------------------------
(* _validate_periods.                                                      *)

NoError == [status |-> 0, kind |-> "none", field |-> "", keys |-> {}]

\* HTTPException(400, detail = "<name>: periodos no validos: <keys> ...") and
\* HTTPException(400, detail = "<name>: faltan periodos: <keys> ...")
HTTP400(kind, name, keys) ==
    [status |-> 400, kind |-> kind, field |-> name, keys |-> keys]

\* the KeyError of TARIFF_PERIODS[tarifa] for a code that is no key
KeyError(tarifa) ==
    [status |-> 500, kind |-> "KeyError", field |-> tarifa, keys |-> {}]

\* _chk without the check of the unknown keys
ChkSoloFaltantes(keys, must, name) ==
    LET faltantes == {k \in Range(must) : k \notin DOMAIN keys}
    IN  IF faltantes # {}
        THEN HTTP400("faltan periodos", name, faltantes)
        ELSE NoError

\* _chk without the check of the missing keys
ChkSoloDesconocidos(keys, must, name) ==
    LET desconocidos == {k \in DOMAIN keys : k \notin Range(must)}
    IN  IF desconocidos # {}
        THEN HTTP400("periodos no validos", name, desconocidos)
        ELSE NoError

\* _chk(keys, must, name): the exception it raises, or NoError
Chk(keys, must, name) ==
    LET desconocidos == {k \in DOMAIN keys : k \notin Range(must)}
        faltantes    == {k \in Range(must) : k \notin DOMAIN keys}
    IN  IF desconocidos # {}
        THEN HTTP400("periodos no validos", name, desconocidos)
        ELSE IF faltantes # {}
        THEN HTTP400("faltan periodos", name, faltantes)
        ELSE NoError

\* the exception of the last failing statement instead of the first
UltimoError(checks) ==
    LET malos == {i \in DOMAIN checks : checks[i] # NoError}
    IN  IF malos = {} THEN NoError
        ELSE checks[CHOOSE i \in malos : \A j \in malos : j <= i]

\* the first exception raised by a sequence of statements
RECURSIVE FirstError(_)
FirstError(checks) ==
    IF checks = <<>> THEN NoError
    ELSE IF Head(checks) # NoError THEN Head(checks)
    ELSE FirstError(Tail(checks))

\* _validate_periods without the four checks of the price maps
ValidatePeriodsSinPrecios(tarifa, energia_kwh, pot_contr, pot_fact, plan_a, plan_b) ==
    IF tarifa \notin DOMAIN TARIFF_PERIODS THEN KeyError(tarifa)
    ELSE
    LET cfg == TARIFF_PERIODS[tarifa]
    IN  FirstError(<<
            Chk(energia_kwh, cfg.energia, "energia_kwh"),
            Chk(pot_contr, cfg.potencia, "potencia_contratada_kw"),
            IF ~pot_fact.isNone
            THEN Chk(pot_fact.map, cfg.potencia, "potencia_facturada_kw")
            ELSE NoError
        >>)

ValidatePeriods(tarifa, energia_kwh, pot_contr, pot_fact, plan_a, plan_b) ==
    IF tarifa \notin DOMAIN TARIFF_PERIODS THEN KeyError(tarifa)
    ELSE
    LET cfg == TARIFF_PERIODS[tarifa]
    IN  FirstError(<<
            Chk(energia_kwh, cfg.energia, "energia_kwh"),
            Chk(pot_contr, cfg.potencia, "potencia_contratada_kw"),
            IF ~pot_fact.isNone
            THEN Chk(pot_fact.map, cfg.potencia, "potencia_facturada_kw")
            ELSE NoError,
            Chk(plan_a.precio_energia, cfg.energia, "actual.precio_energia"),
            Chk(plan_b.precio_energia, cfg.energia, "propuesta.precio_energia"),
            Chk(plan_a.precio_potencia, cfg.potencia, "actual.precio_potencia"),
            Chk(plan_b.precio_potencia, cfg.potencia, "propuesta.precio_potencia")
        >>)

---------------------------------------------------------------------------
(* _compute_bill.                                                          *)

NoBill == [none |-> TRUE]

\* pot_fact or pot_contr
PotBase(pot_fact, pot_contr) ==
    IF Truthy(pot_fact) THEN pot_fact.map ELSE pot_contr

\* 365.0 if unidad_precio_potencia == "eur_kw_dia" else 1.0
FactorPot(unidad_precio_potencia) ==
    IF unidad_precio_potencia = "eur_kw_dia" THEN Units(365) ELSE Units(1)

\* round(importe, 2) if <switch> else importe
RoundIf(switch, importe) ==
    IF switch THEN Cents(Round(importe)) ELSE importe

\* sum(importes): left to right from 0
RECURSIVE Sum(_, _)
Sum(importes, acc) ==
    IF importes = <<>> THEN acc
    ELSE Sum(Tail(importes), RAdd(acc, Head(importes)))

\* importe of every power period, before round(importe, 2)
PotImportes(cfg, pot_base, plan, factor_pot) ==
    [i \in 1..Len(cfg.potencia) |->
        LET p == cfg.potencia[i]
        IN  RMul(RMul(Units(Get(pot_base, p, 0)),
                      Euros(Get(plan.precio_potencia, p, 0))),
                 factor_pot)]

\* importe of every energy period, before round(importe, 2)
EneImportes(cfg, energia_kwh, plan) ==
    [i \in 1..Len(cfg.energia) |->
        LET e == cfg.energia[i]
        IN  RMul(Units(Get(energia_kwh, e, 0)),
                 Euros(Get(plan.precio_energia, e, 0)))]

\* the list appended to without the round(importe, 2) of a line
LineasSinRedondeo(importes, redondeo_por_linea) == importes

\* the list appended to: round(importe, 2) if redondeo_por_linea else importe
Lineas(importes, redondeo_por_linea) ==
    [i \in DOMAIN importes |-> RoundIf(redondeo_por_linea, importes[i])]

\* the base with the fixed charge subtracted instead of added
BaseMenosCargos(pot_total, ene_total, cargos) ==
    RSub(RAdd(pot_total, ene_total), cargos)

\* base = pot_total + ene_total + plan.cargos_fijos_anual_eur
Base(pot_total, ene_total, cargos) == RAdd(RAdd(pot_total, ene_total), cargos)

\* base_ie with the switch ignored: always the base with the fixed charge
BaseIeConCargos(pot_total, ene_total, base, aplicar_ie_solo_a_pot_y_energia) == base

\* base_ie = (pot_total + ene_total) if aplicar_ie_solo_a_pot_y_energia else base
BaseIe(pot_total, ene_total, base, aplicar_ie_solo_a_pot_y_energia) ==
    IF aplicar_ie_solo_a_pot_y_energia THEN RAdd(pot_total, ene_total) ELSE base

\* imp_elec_calc = base_ie * float(imp_elec_pct)
ImpElecCalc(base_ie, imp_elec_pct) == RMul(base_ie, Rate(imp_elec_pct))

\* iva_calc = (base + imp_elec) * float(iva_pct)
IvaCalc(base, imp_elec, iva_pct) == RMul(RAdd(base, imp_elec), Rate(iva_pct))

\* total = base + imp_elec + iva
Total(base, imp_elec, iva) == RAdd(RAdd(base, imp_elec), iva)

\* the local variables of _compute_bill before the BillBreakdown is built
BillAmounts(tarifa, energia_kwh, pot_contr, pot_fact, plan, imp_elec_pct, iva_pct, unidad_precio_potencia, aplicar_ie_solo_a_pot_y_energia, redondeo_por_linea, redondear_impuestos) ==
    LET cfg           == TARIFF_PERIODS[tarifa]
        pot_base      == PotBase(pot_fact, pot_contr)
        factor_pot    == FactorPot(unidad_precio_potencia)
        pot_importes  == PotImportes(cfg, pot_base, plan, factor_pot)
        pot_total     == Sum(Lineas(pot_importes, redondeo_por_linea), Zero)
        ene_importes  == EneImportes(cfg, energia_kwh, plan)
        ene_total     == Sum(Lineas(ene_importes, redondeo_por_linea), Zero)
        cargos        == Euros(plan.cargos_fijos_anual_eur)
        base          == Base(pot_total, ene_total, cargos)
        base_ie       == BaseIe(pot_total, ene_total, base,
                                aplicar_ie_solo_a_pot_y_energia)
        imp_elec_calc == ImpElecCalc(base_ie, imp_elec_pct)
        imp_elec      == RoundIf(redondear_impuestos, imp_elec_calc)
        iva_calc      == IvaCalc(base, imp_elec, iva_pct)
        iva           == RoundIf(redondear_impuestos, iva_calc)
        total         == Total(base, imp_elec, iva)
    IN  [pot_importes |-> pot_importes, ene_importes |-> ene_importes,
         pot_total |-> pot_total, ene_total |-> ene_total, cargos |-> cargos,
         base |-> base, base_ie |-> base_ie,
         imp_elec_calc |-> imp_elec_calc, imp_elec |-> imp_elec,
         iva_calc |-> iva_calc, iva |-> iva, total |-> total]

\* x lies exactly half way between two multiples of 0.01
IsTie(x) ==
    LET y == RMul(x, Units(200))
    IN  y.d = 1 /\ y.n % 2 = 1

\* some round() of the call with the amounts a is applied to an exact tie
HasTie(a, redondeo_por_linea, redondear_impuestos) ==
    \/ /\ redondeo_por_linea
       /\ \/ \E i \in DOMAIN a.pot_importes : IsTie(a.pot_importes[i])
          \/ \E i \in DOMAIN a.ene_importes : IsTie(a.ene_importes[i])
    \/ /\ redondear_impuestos
       /\ (IsTie(a.imp_elec_calc) \/ IsTie(a.iva_calc))
    \/ IsTie(a.pot_total)
    \/ IsTie(a.ene_total)
    \/ IsTie(a.cargos)
    \/ IsTie(a.imp_elec)
    \/ IsTie(a.iva)
    \/ IsTie(a.total)
    \/ IsTie(RDiv(a.total, Units(12)))

\* BillBreakdown(...): every field through _round2, in cents
BillBreakdown(a) ==
    [potencia_anual        |-> Round2(a.pot_total),
     energia_anual         |-> Round2(a.ene_total),
     cargos_fijos_anual    |-> Round2(a.cargos),
     impuesto_electricidad |-> Round2(a.imp_elec),
     iva                   |-> Round2(a.iva),
     total_anual           |-> Round2(a.total),
     total_mensual         |-> Round2(RDiv(a.total, Units(12)))]

ComputeBill(tarifa, energia_kwh, pot_contr, pot_fact, plan, imp_elec_pct, iva_pct, unidad_precio_potencia, aplicar_ie_solo_a_pot_y_energia, redondeo_por_linea, redondear_impuestos) ==
    BillBreakdown(BillAmounts(tarifa, energia_kwh, pot_contr, pot_fact, plan,
                              imp_elec_pct, iva_pct, unidad_precio_potencia,
                              aplicar_ie_solo_a_pot_y_energia,
                              redondeo_por_linea, redondear_impuestos))

\* _compute_bill on the fields of a CompareInput, for one of its plans
BillOf(p, plan) ==
    ComputeBill(p.tarifa, p.energia_kwh, p.potencia_contratada_kw,
                p.potencia_facturada_kw, plan, p.impuesto_electricidad_pct,
                p.iva_pct, p.unidad_precio_potencia,
                p.aplicar_ie_solo_a_pot_y_energia, p.redondeo_por_linea,
                p.redondear_impuestos)

---------------------------------------------------------------------------
(* compare: the savings of lines 645-647 and the CompareResult.            *)

NoResult == [none |-> TRUE]

\* the savings with the subtraction the other way round
SavingsInvertido(act, prop) ==
    LET ahorro_anual   == Round2(RSub(Cents(prop.total_anual), Cents(act.total_anual)))
        ahorro_mensual == Round2(RDiv(Cents(ahorro_anual), Units(12)))
        ahorro_pct     == Round2(IF act.total_anual > 0
                                 THEN RMul(RDiv(Cents(ahorro_anual),
                                                Cents(act.total_anual)),
                                           Units(100))
                                 ELSE Zero)
    IN  [ahorro_anual |-> ahorro_anual, ahorro_mensual |-> ahorro_mensual,
         ahorro_pct |-> ahorro_pct]

\* the savings with a negative annual saving reported as 0
SavingsNoNegativo(act, prop) ==
    LET resta          == Round2(RSub(Cents(act.total_anual), Cents(prop.total_anual)))
        ahorro_anual   == IF resta < 0 THEN 0 ELSE resta
        ahorro_mensual == Round2(RDiv(Cents(ahorro_anual), Units(12)))
        ahorro_pct     == Round2(IF act.total_anual > 0
                                 THEN RMul(RDiv(Cents(ahorro_anual),
                                                Cents(act.total_anual)),
                                           Units(100))
                                 ELSE Zero)
    IN  [ahorro_anual |-> ahorro_anual, ahorro_mensual |-> ahorro_mensual,
         ahorro_pct |-> ahorro_pct]

\* the savings with the percentage guarded by != 0 instead of > 0
SavingsPctDistintoDeCero(act, prop) ==
    LET ahorro_anual   == Round2(RSub(Cents(act.total_anual), Cents(prop.total_anual)))
        ahorro_mensual == Round2(RDiv(Cents(ahorro_anual), Units(12)))
        ahorro_pct     == Round2(IF act.total_anual # 0
                                 THEN RMul(RDiv(Cents(ahorro_anual),
                                                Cents(act.total_anual)),
                                           Units(100))
                                 ELSE Zero)
    IN  [ahorro_anual |-> ahorro_anual, ahorro_mensual |-> ahorro_mensual,
         ahorro_pct |-> ahorro_pct]

\* lines 645-647
Savings(act, prop) ==
    LET ahorro_anual   == Round2(RSub(Cents(act.total_anual), Cents(prop.total_anual)))
        ahorro_mensual == Round2(RDiv(Cents(ahorro_anual), Units(12)))
        ahorro_pct     == Round2(IF act.total_anual > 0
                                 THEN RMul(RDiv(Cents(ahorro_anual),
                                                Cents(act.total_anual)),
                                           Units(100))
                                 ELSE Zero)
    IN  [ahorro_anual |-> ahorro_anual, ahorro_mensual |-> ahorro_mensual,
         ahorro_pct |-> ahorro_pct]

CompareResult(tarifa, act, prop, s) ==
    [tarifa |-> tarifa, actual |-> act, propuesta |-> prop,
     ahorro_anual |-> s.ahorro_anual, ahorro_mensual |-> s.ahorro_mensual,
     ahorro_pct |-> s.ahorro_pct]

---------------------------------------------------------------------------
(* Inputs.  Dicts are drawn by key set and value: every key of a drawn     *)
(* dict carries the same value.  The key sets are taken relative to the    *)
(* period list they are checked against.                                   *)

\* kWh of a period of the consumption: 1 .. MaxKwh
MaxKwh == 2

\* kW of a period of the contracted and of the billed power
KwContratada == {1}

KwFacturada == {2}

PeriodNames ==
    [potencia |-> <<"P1", "P2", "P3", "P4", "P5", "P6", "P7">>,
     energia  |-> <<"E1", "E2", "E3", "E4", "E5", "E6", "E7">>]

\* a tariff code that is no key of TARIFF_PERIODS
OtherTariff == "4.0TD"

\* the period lists the drawn dicts are shaped after
ShapeCfg(t) == IF t \in Tariffs THEN TARIFF_PERIODS[t] ELSE TARIFF_PERIODS["2.0TD"]

KeysOf(shape, kind, must) ==
    LET extra == PeriodNames[kind][Len(must) + 1]
    IN  CASE shape = "exact"   -> Range(must)
          [] shape = "missing" -> Range(must) \ {must[Len(must)]}
          [] shape = "empty"   -> {}
          [] shape = "extra"   -> Range(must) \cup {extra}
          [] shape = "both"    -> (Range(must) \ {must[1]}) \cup {extra}

Dict(keys, v) == [k \in keys |-> v]

Dicts(shapes, kind, must, values) ==
    {Dict(KeysOf(sh, kind, must), v) : sh \in shapes, v \in values}

\* micro-euros per kW and year (or day), per kWh, and per year
PreciosPotencia == {4000}

PreciosEnergia == {4000, 151000}

CargosFijos == {-500000, 0, 1004000}

ImpElecPcts == {5000}

IvaPcts == {21000}

Unidades == {"eur_kw_anio", "eur_kw_dia"}

Plan(precio_potencia, precio_energia, cargos) ==
    [precio_potencia |-> precio_potencia, precio_energia |-> precio_energia,
     cargos_fijos_anual_eur |-> cargos]

Plans(cfg, shapes) ==
    {Plan(pp, pe, c) :
        pp \in Dicts(shapes, "potencia", cfg.potencia, PreciosPotencia),
        pe \in Dicts(shapes, "energia", cfg.energia, PreciosEnergia),
        c \in CargosFijos}

NoArgs == [none |-> TRUE]

NoPayload == [none |-> TRUE]

\* arguments of a direct call of _compute_bill with tariff code t
BillArgsFor(t) ==
    LET cfg == ShapeCfg(t)
    IN  {[tarifa |-> t, energia_kwh |-> e, pot_contr |-> c, pot_fact |-> f,
          plan |-> pl, imp_elec_pct |-> ie, iva_pct |-> iv,
          unidad_precio_potencia |-> u, aplicar_ie_solo_a_pot_y_energia |-> a,
          redondeo_por_linea |-> rl, redondear_impuestos |-> ri] :
            e \in Dicts({"exact", "missing", "empty"}, "energia", cfg.energia,
                        1..MaxKwh),
            c \in Dicts({"exact", "missing"}, "potencia", cfg.potencia, KwContratada),
            f \in {None} \cup
                  {Some(d) : d \in Dicts({"exact", "missing", "empty"}, "potencia",
                                         cfg.potencia, KwFacturada)},
            pl \in Plans(cfg, {"exact", "missing"}),
            ie \in ImpElecPcts, iv \in IvaPcts, u \in Unidades,
            a \in BOOLEAN, rl \in BOOLEAN, ri \in BOOLEAN}

---------------------------------------------------------------------------
(* Direct calls of _compute_bill.                                          *)

\* the call of the 2.0TD scenario: 100 kWh per energy period, 5 kW per
\* power period, 38.93 and 20.69 EUR/kW, 0.098155 EUR/kWh, no fixed charge,
\* and the default rates and switches of CompareInput
ScenarioArgs ==
    [tarifa |-> "2.0TD",
     energia_kwh |-> Dict({"E1", "E2", "E3"}, 100),
     pot_contr |-> Dict({"P1", "P2"}, 5),
     pot_fact |-> None,
     plan |-> Plan([P1 |-> 38930000, P2 |-> 20690000],
                   Dict({"E1", "E2", "E3"}, 98155), 0),
     imp_elec_pct |-> 5112, iva_pct |-> 21000,
     unidad_precio_potencia |-> "eur_kw_anio",
     aplicar_ie_solo_a_pot_y_energia |-> TRUE,
     redondeo_por_linea |-> TRUE, redondear_impuestos |-> TRUE]

AmountsOf(a) ==
    BillAmounts(a.tarifa, a.energia_kwh, a.pot_contr, a.pot_fact, a.plan,
                a.imp_elec_pct, a.iva_pct, a.unidad_precio_potencia,
                a.aplicar_ie_solo_a_pot_y_energia, a.redondeo_por_linea,
                a.redondear_impuestos)


InitBill ==
    /\ pc = "compute_bill"
    /\ \/ \E t \in Tariffs \cup {OtherTariff} :
            /\ args \in BillArgsFor(t)
            \* one set of switches is enough for a code the lookup rejects
            /\ t = OtherTariff =>
                    /\ args.unidad_precio_potencia = "eur_kw_anio"
                    /\ args.aplicar_ie_solo_a_pot_y_energia
                    /\ args.redondeo_por_linea
                    /\ args.redondear_impuestos
       \/ args = ScenarioArgs
    /\ payload = NoPayload
    /\ error = NoError
    /\ actual = NoBill
    /\ propuesta = NoBill
    /\ result = NoResult
    /\ bill = NoBill

\* _compute_bill(...): the lookup of line 565 raises KeyError, or the
\* BillBreakdown is returned.  A call in which some round() meets an exact
\* tie is not taken.
ComputeBillCall ==
    /\ pc = "compute_bill"
    /\ IF args.tarifa \in DOMAIN TARIFF_PERIODS
       THEN \E a \in {AmountsOf(args)} :
                /\ ~HasTie(a, args.redondeo_por_linea, args.redondear_impuestos)
                /\ bill' = BillBreakdown(a)
                /\ error' = NoError
       ELSE /\ bill' = NoBill
            /\ error' = KeyError(args.tarifa)
    /\ pc' = "bill_done"
    /\ UNCHANGED <<payload, actual, propuesta, result, args>>

NextBill == ComputeBillCall

SpecBill == InitBill /\ [][NextBill]_vars

---------------------------------------------------------------------------
(* Properties of _compute_bill, checked under SpecBill.                    *)

BillFields ==
    {"potencia_anual", "energia_anual", "cargos_fijos_anual",
     "impuesto_electricidad", "iva", "total_anual", "total_mensual"}

BillReturned == pc = "bill_done" /\ error = NoError

\* C1: the stored total_anual is the sum of the five stored components,
\* to the cent, for every input and every setting of the switches.
C1_TotalIsSumOfStoredFields ==
    BillReturned =>
        bill.total_anual = bill.potencia_anual + bill.energia_anual
                           + bill.cargos_fijos_anual
                           + bill.impuesto_electricidad + bill.iva

\* x to the nearest multiple of 0.01, in cents, a tie going away from zero
RoundHalfAway(x) ==
    LET up(n, d) == (200 * n + d) \div (2 * d)
    IN  IF x.n >= 0 THEN up(x.n, x.d) ELSE -up(-x.n, x.d)

\* C2: the stored total_mensual is the stored total_anual divided by 12
\* and rounded to 2 decimals, whichever way the rounding takes a half cent
\* (to the even cent, as round() does, or away from zero).
C2_MonthlyIsStoredAnnualOver12 ==
    BillReturned =>
        LET twelfth == RDiv(Cents(bill.total_anual), Units(12))
        IN  bill.total_mensual \in {Round(twelfth), RoundHalfAway(twelfth)}

\* m with every period of must that it lacks added with the value 0
FillZero(m, must) ==
    [k \in DOMAIN m \cup Range(must) |-> IF k \in DOMAIN m THEN m[k] ELSE 0]

\* the bill of the same call with every absent required period written
\* out as an explicit 0 in the power base, the consumption and the prices
BillWithZerosWritten ==
    LET cfg == TARIFF_PERIODS[args.tarifa]
    IN  ComputeBill(args.tarifa,
                    FillZero(args.energia_kwh, cfg.energia),
                    FillZero(PotBase(args.pot_fact, args.pot_contr), cfg.potencia),
                    None,
                    Plan(FillZero(args.plan.precio_potencia, cfg.potencia),
                         FillZero(args.plan.precio_energia, cfg.energia),
                         args.plan.cargos_fijos_anual_eur),
                    args.imp_elec_pct, args.iva_pct, args.unidad_precio_potencia,
                    args.aplicar_ie_solo_a_pot_y_energia,
                    args.redondeo_por_linea, args.redondear_impuestos)

\* a call returns a BillBreakdown in which the absent periods count as 0
ReturnsBillWithAbsentAsZero ==
    /\ error = NoError
    /\ DOMAIN bill = BillFields
    /\ bill = BillWithZerosWritten
    /\ LET cfg == TARIFF_PERIODS[args.tarifa]
           pot_base == PotBase(args.pot_fact, args.pot_contr)
       IN  /\ (\A e \in Range(cfg.energia) :
                    e \notin DOMAIN args.energia_kwh
                    \/ e \notin DOMAIN args.plan.precio_energia)
                => bill.energia_anual = 0
           /\ (\A q \in Range(cfg.potencia) :
                    q \notin DOMAIN pot_base
                    \/ q \notin DOMAIN args.plan.precio_potencia)
                => bill.potencia_anual = 0

NonNegative(m) == \A k \in DOMAIN m : m[k] >= 0

PricesAndConsumptionNonNegative ==
    /\ NonNegative(args.energia_kwh)
    /\ NonNegative(args.pot_contr)
    /\ NonNegative(args.pot_fact.map)
    /\ NonNegative(args.plan.precio_potencia)
    /\ NonNegative(args.plan.precio_energia)

\* C10 as stated: with non-negative prices, consumption and power, and
\* whatever the fixed charge, the electricity tax and the VAT are >= 0.
C10_TaxesNonNegative ==
    (BillReturned /\ PricesAndConsumptionNonNegative)
        => (bill.impuesto_electricidad >= 0 /\ bill.iva >= 0)

\* C10 amended: the same when the fixed charge and both tax rates are
\* non-negative too.
C10_TaxesNonNegativeWithNonNegativeCharge ==
    (/\ BillReturned
     /\ PricesAndConsumptionNonNegative
     /\ args.plan.cargos_fijos_anual_eur >= 0
     /\ args.imp_elec_pct >= 0
     /\ args.iva_pct >= 0)
        => (bill.impuesto_electricidad >= 0 /\ bill.iva >= 0)

\* a bill with a positive fixed charge in the tax base and both taxes > 0
C10_Witness ==
    /\ BillReturned
    /\ PricesAndConsumptionNonNegative
    /\ args.plan.cargos_fijos_anual_eur > 0
    /\ ~args.aplicar_ie_solo_a_pot_y_energia
    /\ bill.impuesto_electricidad > 0
    /\ bill.iva > 0

---------------------------------------------------------------------------
(* Direct calls of _validate_periods.                                      *)

AllShapes == {"exact", "missing", "empty", "extra", "both"}

KeyShapes == {"exact", "missing", "extra", "both"}

\* the plans of a direct call of _validate_periods: only the key sets matter
ValPlans(cfg) ==
    {Plan(pp, pe, 0) :
        pp \in Dicts(KeyShapes, "potencia", cfg.potencia, PreciosPotencia),
        pe \in Dicts(KeyShapes, "energia", cfg.energia, {151000})}

\* arguments of a direct call of _validate_periods with tariff code t
ValArgsFor(t) ==
    LET cfg == ShapeCfg(t)
    IN  {[tarifa |-> t, energia_kwh |-> e, pot_contr |-> c, pot_fact |-> f,
          plan_a |-> pa, plan_b |-> pb] :
            e \in Dicts(AllShapes, "energia", cfg.energia, {1}),
            c \in Dicts(KeyShapes, "potencia", cfg.potencia, KwContratada),
            f \in {None} \cup
                  {Some(d) : d \in Dicts(AllShapes, "potencia", cfg.potencia,
                                         KwFacturada)},
            pa \in ValPlans(cfg), pb \in ValPlans(cfg)}

InitVal ==
    /\ pc = "validate_periods"
    /\ \E t \in Tariffs \cup {OtherTariff} : args \in ValArgsFor(t)
    /\ payload = NoPayload
    /\ error = NoError
    /\ actual = NoBill
    /\ propuesta = NoBill
    /\ result = NoResult
    /\ bill = NoBill

\* _validate_periods(...): raises the first exception of its checks, or returns
ValidateCall ==
    /\ pc = "validate_periods"
    /\ error' = ValidatePeriods(args.tarifa, args.energia_kwh, args.pot_contr,
                                args.pot_fact, args.plan_a, args.plan_b)
    /\ pc' = "validated"
    /\ UNCHANGED <<payload, actual, propuesta, result, args, bill>>

NextVal == ValidateCall

SpecVal == InitVal /\ [][NextVal]_vars

---------------------------------------------------------------------------
(* Properties of _validate_periods, checked under SpecVal.                 *)

Validated == pc = "validated" /\ args.tarifa \in DOMAIN TARIFF_PERIODS

\* the validated maps of the call in the order they are checked: the name
\* of the field, its key set and the period set the tariff requires
Campos ==
    LET cfg == TARIFF_PERIODS[args.tarifa]
        pot == Range(cfg.potencia)
        ene == Range(cfg.energia)
        campo(name, m, must) == [name |-> name, keys |-> DOMAIN m, must |-> must]
    IN  <<campo("energia_kwh", args.energia_kwh, ene),
          campo("potencia_contratada_kw", args.pot_contr, pot)>>
        \o (IF args.pot_fact.isNone THEN <<>>
            ELSE <<campo("potencia_facturada_kw", args.pot_fact.map, pot)>>)
        \o <<campo("actual.precio_energia", args.plan_a.precio_energia, ene),
             campo("propuesta.precio_energia", args.plan_b.precio_energia, ene),
             campo("actual.precio_potencia", args.plan_a.precio_potencia, pot),
             campo("propuesta.precio_potencia", args.plan_b.precio_potencia, pot)>>

Desconocidos(c) == c.keys \ c.must

Faltantes(c) == c.must \ c.keys

\* every field checked before the i-th has exactly the required key set
PrimeroInvalido(i) == \A j \in 1..(i - 1) : Campos[j].keys = Campos[j].must

EsPrecio(c) ==
    c.name \in {"actual.precio_energia", "propuesta.precio_energia",
                "actual.precio_potencia", "propuesta.precio_potencia"}

\* C3 as stated: whichever validated map holds a key outside the required
\* period set, the call fails with the unknown-period error naming that
\* field and its offending keys.
C3_UnknownKeyNamesItsField ==
    Validated =>
        \A i \in DOMAIN Campos :
            Desconocidos(Campos[i]) # {}
                => error = HTTP400("periodos no validos", Campos[i].name,
                                   Desconocidos(Campos[i]))

\* C3 amended: a key outside the required period set always makes the call
\* fail with a 400, and the error is the unknown-period error naming that
\* field and its offending keys when no field checked earlier is invalid.
C3_UnknownKeyRejected ==
    Validated =>
        \A i \in DOMAIN Campos :
            Desconocidos(Campos[i]) # {}
                => /\ error.status = 400
                   /\ PrimeroInvalido(i)
                        => error = HTTP400("periodos no validos", Campos[i].name,
                                           Desconocidos(Campos[i]))

\* the consumption of a 2.0TD call carries E4 and the call failed on it
C3_Witness ==
    /\ Validated
    /\ args.tarifa = "2.0TD"
    /\ "E4" \in DOMAIN args.energia_kwh
    /\ error = HTTP400("periodos no validos", "energia_kwh", {"E4"})

TodosExactos == \A i \in DOMAIN Campos : Campos[i].keys = Campos[i].must

\* C4 as stated: a price map of a plan that lacks a required period makes
\* the call fail with the missing-period error naming that field and the
\* missing keys, and the call raises nothing exactly when every validated
\* map has the required key set.
C4_MissingKeyNamesItsField ==
    Validated =>
        /\ \A i \in DOMAIN Campos :
                (EsPrecio(Campos[i]) /\ Faltantes(Campos[i]) # {})
                    => error = HTTP400("faltan periodos", Campos[i].name,
                                       Faltantes(Campos[i]))
        /\ error = NoError <=> TodosExactos

\* C4 amended: such a price map always makes the call fail with a 400; the
\* error is the missing-period error naming that field and its missing keys
\* when no field checked earlier is invalid and the map holds no unknown
\* key; and the call raises nothing exactly when every validated map has
\* the required key set.
C4_MissingKeyRejected ==
    Validated =>
        /\ \A i \in DOMAIN Campos :
                (EsPrecio(Campos[i]) /\ Faltantes(Campos[i]) # {})
                    => /\ error.status = 400
                       /\ (PrimeroInvalido(i) /\ Desconocidos(Campos[i]) = {})
                            => error = HTTP400("faltan periodos", Campos[i].name,
                                               Faltantes(Campos[i]))
        /\ error = NoError <=> TodosExactos

\* a 6.1TD call failed on the power prices of the proposed plan lacking P6
C4_Witness ==
    /\ Validated
    /\ args.tarifa = "6.1TD"
    /\ error = HTTP400("faltan periodos", "propuesta.precio_potencia", {"P6"})

---------------------------------------------------------------------------
(* The /compare handler.                                                   *)

CompareInput(tarifa, energia_kwh, pot_contr, pot_fact, plan_a, plan_b, imp_elec_pct, iva_pct, unidad, aplicar_ie, por_linea, impuestos) ==
    [tarifa |-> tarifa, energia_kwh |-> energia_kwh,
     potencia_contratada_kw |-> pot_contr, potencia_facturada_kw |-> pot_fact,
     actual |-> plan_a, propuesta |-> plan_b,
     impuesto_electricidad_pct |-> imp_elec_pct, iva_pct |-> iva_pct,
     unidad_precio_potencia |-> unidad,
     aplicar_ie_solo_a_pot_y_energia |-> aplicar_ie,
     redondeo_por_linea |-> por_linea, redondear_impuestos |-> impuestos]

\* the plans of a request: a price of 0 makes a bill of 0 or less possible
ComparePlans(cfg, shapes) ==
    {Plan(pp, pe, c) :
        pp \in Dicts(shapes, "potencia", cfg.potencia, {0} \cup PreciosPotencia),
        pe \in Dicts(shapes, "energia", cfg.energia, {0, 151000}),
        c \in CargosFijos}

\* requests for the tariff t whose maps have the given shapes
Payloads(t, eshapes, fshapes, pshapes, unidades, switches) ==
    LET cfg == TARIFF_PERIODS[t]
    IN  {CompareInput(t, e, c, f, pa, pb, ie, iv, u, a, rl, ri) :
            e \in Dicts(eshapes, "energia", cfg.energia, 1..MaxKwh),
            c \in Dicts({"exact"}, "potencia", cfg.potencia, KwContratada),
            f \in {None} \cup
                  {Some(d) : d \in Dicts(fshapes, "potencia", cfg.potencia,
                                         KwFacturada)},
            pa \in ComparePlans(cfg, pshapes), pb \in ComparePlans(cfg, pshapes),
            ie \in ImpElecPcts, iv \in IvaPcts, u \in unidades,
            a \in switches, rl \in switches, ri \in switches}

\* tarifa is a TarifaLiteral: the request model admits the three codes only
Init ==
    /\ pc = "compare"
    /\ \E t \in Tariffs :
            \/ payload \in Payloads(t, {"exact"}, {"exact"}, {"exact"}, Unidades,
                                    BOOLEAN)
            \/ payload \in Payloads(t, {"exact", "extra"}, {"exact", "empty"},
                                    {"exact", "missing"}, {"eur_kw_anio"}, {TRUE})
    /\ error = NoError
    /\ actual = NoBill
    /\ propuesta = NoBill
    /\ result = NoResult
    /\ args = NoArgs
    /\ bill = NoBill

\* some round() of lines 645-647 is applied to an exact tie
SavingsHasTie(act, prop) ==
    LET ahorro_anual == Cents(act.total_anual - prop.total_anual)
    IN  \/ IsTie(RDiv(ahorro_anual, Units(12)))
        \/ /\ act.total_anual > 0
           /\ IsTie(RMul(RDiv(ahorro_anual, Cents(act.total_anual)), Units(100)))

\* the local variables of _compute_bill called on the request p for a plan
AmountsFor(p, plan) ==
    BillAmounts(p.tarifa, p.energia_kwh, p.potencia_contratada_kw,
                p.potencia_facturada_kw, plan, p.impuesto_electricidad_pct,
                p.iva_pct, p.unidad_precio_potencia,
                p.aplicar_ie_solo_a_pot_y_energia, p.redondeo_por_linea,
                p.redondear_impuestos)

\* some round() of the request p is applied to an exact tie
CompareHasTie(p) ==
    LET a == AmountsFor(p, p.actual)
        b == AmountsFor(p, p.propuesta)
    IN  \/ HasTie(a, p.redondeo_por_linea, p.redondear_impuestos)
        \/ HasTie(b, p.redondeo_por_linea, p.redondear_impuestos)
        \/ SavingsHasTie(BillBreakdown(a), BillBreakdown(b))

\* lines 608-615: _validate_periods raises, or the handler goes on.  A
\* request in which some round() meets an exact tie is not taken.
Validate ==
    /\ pc = "compare"
    /\ \E e \in {ValidatePeriods(payload.tarifa, payload.energia_kwh,
                                 payload.potencia_contratada_kw,
                                 payload.potencia_facturada_kw,
                                 payload.actual, payload.propuesta)} :
            IF e # NoError
            THEN /\ error' = e
                 /\ pc' = "raised"
            ELSE /\ ~CompareHasTie(payload)
                 /\ error' = NoError
                 /\ pc' = "bill_actual"
    /\ UNCHANGED <<payload, actual, propuesta, result, args, bill>>

\* lines 617-629: actual = _compute_bill(..., payload.actual, ...)
BillActual ==
    /\ pc = "bill_actual"
    /\ actual' = BillOf(payload, payload.actual)
    /\ pc' = "bill_propuesta"
    /\ UNCHANGED <<payload, error, propuesta, result, args, bill>>

\* lines 631-643: propuesta = _compute_bill(..., payload.propuesta, ...)
BillPropuesta ==
    /\ pc = "bill_propuesta"
    /\ propuesta' = BillOf(payload, payload.propuesta)
    /\ pc' = "savings"
    /\ UNCHANGED <<payload, error, actual, result, args, bill>>

\* lines 645-656: the savings and the CompareResult returned
Return ==
    /\ pc = "savings"
    /\ result' = CompareResult(payload.tarifa, actual, propuesta,
                               Savings(actual, propuesta))
    /\ pc' = "returned"
    /\ UNCHANGED <<payload, error, actual, propuesta, args, bill>>

Next == Validate \/ BillActual \/ BillPropuesta \/ Return

Spec == Init /\ [][Next]_vars

---------------------------------------------------------------------------
(* Properties of compare, checked under Spec.                              *)

\* every validated map of the request has exactly the key set its tariff
\* requires
PayloadValid ==
    LET cfg == TARIFF_PERIODS[payload.tarifa]
        pot == Range(cfg.potencia)
        ene == Range(cfg.energia)
    IN  /\ DOMAIN payload.energia_kwh = ene
        /\ DOMAIN payload.potencia_contratada_kw = pot
        /\ \/ payload.potencia_facturada_kw.isNone
           \/ DOMAIN payload.potencia_facturada_kw.map = pot
        /\ DOMAIN payload.actual.precio_energia = ene
        /\ DOMAIN payload.propuesta.precio_energia = ene
        /\ DOMAIN payload.actual.precio_potencia = pot
        /\ DOMAIN payload.propuesta.precio_potencia = pot

\* C5: a bill exists only after the validation of the whole request has
\* succeeded; a failed validation ends the call with a 400, no bill and no
\* result; the proposed bill is never there without the actual one; and a
\* returned result carries both bills.
C5_ValidationBeforeBills ==
    /\ (actual # NoBill \/ propuesta # NoBill \/ result # NoResult)
            => (PayloadValid /\ error = NoError)
    /\ ~PayloadValid => pc \in {"compare", "raised"}
    /\ pc = "raised"
            => /\ error.status = 400
               /\ ~PayloadValid
               /\ actual = NoBill /\ propuesta = NoBill /\ result = NoResult
    /\ propuesta # NoBill => actual # NoBill
    /\ pc = "returned"
            => /\ actual # NoBill /\ propuesta # NoBill
               /\ result.actual = actual /\ result.propuesta = propuesta

\* the last check of the validation failed: no bill, no result
C5_Witness ==
    /\ pc = "raised"
    /\ error.field = "propuesta.precio_potencia"
    /\ actual = NoBill /\ propuesta = NoBill /\ result = NoResult

\* C7: the ahorro_anual of a returned CompareResult is the stored
\* total_anual of its actual bill minus that of its propuesta bill.
C7_AhorroIsDifferenceOfStoredTotals ==
    pc = "returned"
        => result.ahorro_anual
             = result.actual.total_anual - result.propuesta.total_anual

\* a result whose proposed plan is the dearer one
C7_Witness ==
    /\ pc = "returned"
    /\ result.ahorro_anual < 0
    /\ result.propuesta.total_anual > result.actual.total_anual

\* the request with the two plans swapped
Swap(p) == [p EXCEPT !.actual = p.propuesta, !.propuesta = p.actual]

\* what compare returns for a request that passes the validation
CompareOf(p) ==
    LET act  == BillOf(p, p.actual)
        prop == BillOf(p, p.propuesta)
    IN  CompareResult(p.tarifa, act, prop, Savings(act, prop))

\* C8: the ahorro_anual returned is the negation of the one compare returns
\* for the same request with the two plans swapped.
C8_AhorroAntisymmetric ==
    pc = "returned"
        => result.ahorro_anual = -(CompareOf(Swap(payload)).ahorro_anual)

\* a result with a non-zero saving whose plans differ
C8_Witness ==
    /\ pc = "returned"
    /\ payload.actual # payload.propuesta
    /\ result.ahorro_anual > 0

\* C9: ahorro_pct is 0 when the actual total is <= 0, and otherwise
\* 100 * ahorro_anual / actual.total_anual rounded to 2 decimals.
C9_PctZeroOrRatio ==
    pc = "returned"
        => result.ahorro_pct
             = IF result.actual.total_anual <= 0 THEN 0
               ELSE Round(RDiv(RMul(Units(100), Cents(result.ahorro_anual)),
                               Cents(result.actual.total_anual)))

\* a result whose actual total is exactly 0 while the saving is not
C9_Witness ==
    /\ pc = "returned"
    /\ result.actual.total_anual = 0
    /\ result.ahorro_anual # 0
    /\ result.ahorro_pct = 0

---------------------------------------------------------------------------
(* The 2.0TD scenario, checked under SpecBill.                             *)

ScenarioBilled == pc = "bill_done" /\ args = ScenarioArgs

\* C11 as stated: the scenario call returns potencia_anual 298.10,
\* energia_anual 29.45, impuesto_electricidad 16.75, iva 72.30 and
\* total_anual 416.60, over a base of 327.55.
C11_ScenarioAsStated ==
    ScenarioBilled =>
        /\ error = NoError
        /\ bill.potencia_anual = 29810
        /\ bill.energia_anual = 2945
        /\ bill.potencia_anual + bill.energia_anual + bill.cargos_fijos_anual = 32755
        /\ bill.impuesto_electricidad = 1675
        /\ bill.iva = 7230
        /\ bill.total_anual = 41660

\* C11 amended: the scenario call returns potencia_anual 298.10,
\* energia_anual 29.46, impuesto_electricidad 16.74, iva 72.30 and
\* total_anual 416.60, over a base of 327.56.
C11_ScenarioAsComputed ==
    ScenarioBilled =>
        /\ error = NoError
        /\ bill.potencia_anual = 29810
        /\ bill.energia_anual = 2946
        /\ bill.potencia_anual + bill.energia_anual + bill.cargos_fijos_anual = 32756
        /\ bill.impuesto_electricidad = 1674
        /\ bill.iva = 7230
        /\ bill.total_anual = 41660

\* the scenario call has returned its bill
C11_Witness ==
    /\ ScenarioBilled
    /\ error = NoError
    /\ bill.total_mensual = 3472

---------------------------------------------------------------------------
(* The power base, checked under SpecBill.                                 *)

\* potencia_anual as it comes out of the power base pot_base alone
PotenciaAnualOver(pot_base) ==
    Round2(Sum(Lineas(PotImportes(TARIFF_PERIODS[args.tarifa], pot_base, args.plan,
                                  FactorPot(args.unidad_precio_potencia)),
                      args.redondeo_por_linea),
               Zero))

\* C12: whenever a billed-power map is supplied (not None), an empty or a
\* partial one included, the power cost is the one of that map with its
\* absent periods counting as 0, whatever the contracted power; the
\* contracted power is the base only when no billed-power map is supplied.
C12_BilledPowerIsBase ==
    BillReturned =>
        bill.potencia_anual
            = IF args.pot_fact.isNone THEN PotenciaAnualOver(args.pot_contr)
              ELSE PotenciaAnualOver(args.pot_fact.map)

---------------------------------------------------------------------------
(* Unregistered tariff codes, checked under SpecBill.                      *)

\* C13: a call with a tariff code that is no key of TARIFF_PERIODS is
\* rejected by the lookup with a validation error that names the tariff,
\* as the period errors are (an HTTPException with status 400), before any
\* arithmetic and without a bill.
C13_UnknownTariffIsValidationError ==
    (pc = "bill_done" /\ args.tarifa \notin DOMAIN TARIFF_PERIODS)
        => /\ bill = NoBill
           /\ error.status = 400
           /\ error.field = args.tarifa

---------------------------------------------------------------------------
(* The tax bases, checked under SpecBill.                                  *)

\* the two taxes of the call as the claim describes them: the sum of the
\* power lines, the sum of the energy lines, the fixed charge, and the
\* bases taken from these
TaxesAsDescribed ==
    LET cfg       == TARIFF_PERIODS[args.tarifa]
        power     == Sum(Lineas(PotImportes(cfg,
                                            PotBase(args.pot_fact, args.pot_contr),
                                            args.plan,
                                            FactorPot(args.unidad_precio_potencia)),
                                args.redondeo_por_linea), Zero)
        energy    == Sum(Lineas(EneImportes(cfg, args.energia_kwh, args.plan),
                                args.redondeo_por_linea), Zero)
        surcharge == Euros(args.plan.cargos_fijos_anual_eur)
        tax_base  == IF args.aplicar_ie_solo_a_pot_y_energia
                     THEN RAdd(power, energy)
                     ELSE RAdd(RAdd(power, energy), surcharge)
        tax       == RoundIf(args.redondear_impuestos,
                             RMul(tax_base, Rate(args.imp_elec_pct)))
        vat_base  == RAdd(RAdd(RAdd(power, energy), surcharge), tax)
        vat       == RoundIf(args.redondear_impuestos,
                             RMul(vat_base, Rate(args.iva_pct)))
        tax_full  == RMul(RAdd(RAdd(power, energy), surcharge),
                          Rate(args.imp_elec_pct))
    IN  [impuesto_electricidad |-> Round2(tax), iva |-> Round2(vat),
         sobre_base_completa |-> Round2(tax_full)]

\* C15: the electricity tax is taken on power + energy when
\* aplicar_ie_solo_a_pot_y_energia is on and on power + energy + fixed
\* charge when it is off; the VAT is always taken on power + energy + fixed
\* charge + electricity tax (the rounded tax when redondear_impuestos is on).
C15_TaxBases ==
    BillReturned =>
        /\ bill.impuesto_electricidad = TaxesAsDescribed.impuesto_electricidad
        /\ bill.iva = TaxesAsDescribed.iva

\* a bill with the switch on and a fixed charge that the electricity tax
\* leaves out and the VAT takes in
C15_Witness ==
    /\ BillReturned
    /\ args.aplicar_ie_solo_a_pot_y_energia
    /\ args.redondear_impuestos
    /\ args.plan.cargos_fijos_anual_eur > 0
    /\ bill.impuesto_electricidad > 0
    /\ bill.impuesto_electricidad < TaxesAsDescribed.sobre_base_completa
    /\ bill.iva > 0

---------------------------------------------------------------------------
(* The error of several invalid fields, checked under SpecVal.             *)

\* the first field, in the order of the checks, whose key set is not the
\* required one
PrimerCampoInvalido ==
    Campos[CHOOSE i \in DOMAIN Campos :
                Campos[i].keys # Campos[i].must /\ PrimeroInvalido(i)]

\* C16: whatever the number of invalid fields, the one error raised is the
\* one of the first invalid field in the check order, with all its bad
\* keys: its unknown keys if it has any, its missing keys otherwise.
C16_FirstOffendingFieldOnly ==
    (Validated /\ ~TodosExactos) =>
        LET c == PrimerCampoInvalido
        IN  error = IF Desconocidos(c) # {}
                    THEN HTTP400("periodos no validos", c.name, Desconocidos(c))
                    ELSE HTTP400("faltan periodos", c.name, Faltantes(c))

\* a 3.0TD call whose consumption has an unknown and a missing key, whose
\* billed power is empty and whose proposed plan lacks a price: the error is
\* the unknown key of the consumption
C16_Witness ==
    /\ Validated
    /\ args.tarifa = "3.0TD"
    /\ "E1" \notin DOMAIN args.energia_kwh
    /\ ~args.pot_fact.isNone /\ DOMAIN args.pot_fact.map = {}
    /\ "P6" \notin DOMAIN args.plan_b.precio_potencia
    /\ error = HTTP400("periodos no validos", "energia_kwh", {"E7"})

===========================================================================
